---- MODULE Spec2Model ----
(***************************************************************************)
(* Model of similarities.similarity.Similarity: the corpus store           *)
(* (corpus, corpus_embeddings), add_corpus, most_similar, save_index and   *)
(* load_index.  A Python dict is a sequence of entries with distinct keys  *)
(* in insertion order; a Python list is a sequence.                        *)
(***************************************************************************)
EXTENDS Integers, Sequences, FiniteSets, TLC

VARIABLES corpus, corpus_embeddings, disk, last

vars == <<corpus, corpus_embeddings, disk, last>>

\* ------------------------------------------------------------------ bounds
MaxInput == 2      \* longest list / mapping handed to add_corpus
MaxEmb == 4        \* add_corpus is not called on a store that has grown this large
MaxQueries == 2    \* longest list / mapping of queries
MaxTopN == 3       \* largest topn tried

\* ------------------------------------------------------------- input texts
Docs == {"a", "b", "c"}
CorpusKeys == {"k1", "k2"}
QueryKeys == {"q7", "q8"}
QueryTexts == {"a", "c"}
ScoreNames == {"cos_sim", "dot", "euclid"}

\* The encoder is external: one fixed vector per text, the same on every call.
Encode(text) ==
    CASE text = "a" -> <<1, 0>>
      [] text = "b" -> <<0, 1>>
      [] text = "c" -> <<3, 4>>
      [] text = "k1" -> <<4, 3>>
      [] text = "k2" -> <<0, 0>>

\* self.sentence_model.encode(sentences): one vector per sentence, in order
GetVector(sentences) == [i \in DOMAIN sentences |-> Encode(sentences[i])]

\* ------------------------------------------------------------ dict helpers
DictKeys(d) == [i \in DOMAIN d |-> d[i].id]

KeySet(d) == {d[i].id : i \in DOMAIN d}

DictValues(d) == {d[i].doc : i \in DOMAIN d}

DictGet(d, k) == d[CHOOSE i \in DOMAIN d : d[i].id = k].doc

\* d[k] = v: an existing key keeps its position, a new key goes to the end
DictSet(d, k, v) ==
    IF k \in KeySet(d)
    THEN [i \in DOMAIN d |-> IF d[i].id = k THEN [id |-> k, doc |-> v] ELSE d[i]]
    ELSE Append(d, [id |-> k, doc |-> v])

RECURSIVE DictUpdate(_, _)
DictUpdate(d, new) ==
    IF new = <<>> THEN d
    ELSE DictUpdate(DictSet(d, Head(new).id, Head(new).doc), Tail(new))

\* -------------------------------------------------------------- add_corpus
StartId(c) == Len(c)

\* the loop of add_corpus over a list: enumerate index id = i - 1
NewCorpusList(c, input) ==
    LET all == [i \in DOMAIN input |-> [id |-> StartId(c) + (i - 1), doc |-> input[i]]]
        IsNew(e) == e.doc \notin DictValues(c)
    IN SelectSeq(all, IsNew)

\* the loop of add_corpus over a dict: enumerate(corpus) yields (index, key)
NewCorpusMapping(c, input) ==
    LET all == [i \in DOMAIN input |-> [id |-> i - 1, doc |-> input[i].key]]
        IsNew(e) == e.doc \notin DictValues(c)
    IN SelectSeq(all, IsNew)

NewDocs(new) == [i \in DOMAIN new |-> new[i].doc]

\* lines 153-154 as they would be if the new embeddings replaced the old ones
ExtendEmbeddingsReplaces(old, added) == added

\* lines 153-154: the new embeddings go after the old ones
ExtendEmbeddings(old, added) == old \o added

\* lines 150-154: the store after add_corpus has collected new_corpus
AddCorpusStore(c, e, new) ==
    [corpus |-> DictUpdate(c, new),
     corpus_embeddings |-> ExtendEmbeddings(e, GetVector(NewDocs(new)))]

\* encoded: the arguments of the calls of the encoder made by the call, in order
NoCall == [op |-> "init", kind |-> "none", arg |-> <<>>, topn |-> 0, fn |-> "none",
           raised |-> "none", result |-> <<>>, encoded |-> <<>>]

\* The API is synchronous and single-threaded: a call is made only when the
\* previous one has returned and its outcome has been taken by the caller.
Idle == last = NoCall

Return ==
    /\ ~Idle
    /\ last' = NoCall
    /\ UNCHANGED <<corpus, corpus_embeddings, disk>>

Lists(S, n) == UNION {[1..k -> S] : k \in 0..n}

Mappings(K, V, n) ==
    {m \in Lists([key : K, val : V], n) :
        \A i, j \in DOMAIN m : i # j => m[i].key # m[j].key}

AddCorpusList ==
    /\ Idle
    /\ Len(corpus_embeddings) < MaxEmb
    /\ Len(corpus) < MaxEmb
    /\ \E input \in Lists(Docs, MaxInput) :
         LET new == NewCorpusList(corpus, input) IN
         /\ corpus' = AddCorpusStore(corpus, corpus_embeddings, new).corpus
         /\ corpus_embeddings' =
               AddCorpusStore(corpus, corpus_embeddings, new).corpus_embeddings
         /\ last' = [NoCall EXCEPT !.op = "add_corpus", !.kind = "list", !.arg = input,
                                   !.encoded = <<NewDocs(new)>>]
    /\ UNCHANGED disk

AddCorpusMapping ==
    /\ Idle
    /\ Len(corpus_embeddings) < MaxEmb
    /\ Len(corpus) < MaxEmb
    /\ \E input \in Mappings(CorpusKeys, Docs, MaxInput) :
         LET new == NewCorpusMapping(corpus, input) IN
         /\ corpus' = AddCorpusStore(corpus, corpus_embeddings, new).corpus
         /\ corpus_embeddings' =
               AddCorpusStore(corpus, corpus_embeddings, new).corpus_embeddings
         /\ last' = [NoCall EXCEPT !.op = "add_corpus", !.kind = "dict", !.arg = input,
                                   !.encoded = <<NewDocs(new)>>]
    /\ UNCHANGED disk

\* add_corpus when the encoder raises at line 152: line 150 has run, lines
\* 153-154 have not, and the exception leaves add_corpus
AddCorpusListRaises ==
    /\ Idle
    /\ Len(corpus_embeddings) < MaxEmb
    /\ Len(corpus) < MaxEmb
    /\ \E input \in Lists(Docs, MaxInput) :
         LET new == NewCorpusList(corpus, input) IN
         /\ corpus' = DictUpdate(corpus, new)
         /\ last' = [NoCall EXCEPT !.op = "add_corpus", !.kind = "list", !.arg = input,
                                   !.encoded = <<NewDocs(new)>>,
                                   !.raised = "EncoderError"]
    /\ UNCHANGED <<corpus_embeddings, disk>>

NoFile == [kind |-> "missing", entries |-> <<>>]

Init ==
    /\ corpus = <<>>
    /\ corpus_embeddings = <<>>
    /\ disk = NoFile
    /\ last = NoCall

\* ------------------------------------------------- snapshot files (JSON)
\* A JSON object key is a string: a sequence of characters.
DigitChars == <<"0", "1", "2", "3", "4", "5", "6", "7", "8", "9">>

IsDigit(ch) == \E d \in DOMAIN DigitChars : DigitChars[d] = ch

DigitOf(ch) == (CHOOSE d \in DOMAIN DigitChars : DigitChars[d] = ch) - 1

\* json.dump writes the int key n as str(n)
RECURSIVE IntToStr(_)
IntToStr(n) ==
    IF n < 10 THEN <<DigitChars[n + 1]>>
    ELSE IntToStr(n \div 10) \o <<DigitChars[(n % 10) + 1]>>

\* int(id) accepts a non-empty string of digits (leading zeros allowed)
IsIntLiteral(str) == Len(str) > 0 /\ \A i \in DOMAIN str : IsDigit(str[i])

RECURSIVE StrToInt(_)
StrToInt(str) ==
    IF Len(str) = 0 THEN 0
    ELSE 10 * StrToInt(SubSeq(str, 1, Len(str) - 1)) + DigitOf(str[Len(str)])

Min(x, y) == IF x < y THEN x ELSE y

JsonEntry(id, doc, emb) ==
    [id |-> id, fields |-> {"doc", "doc_emb"}, doc |-> doc, doc_emb |-> emb]

\* the file save_index writes: zip stops at the shorter of keys and embeddings
SaveIndexFile(c, e) ==
    [kind |-> "json",
     entries |-> [i \in 1..Min(Len(c), Len(e)) |->
                    JsonEntry(IntToStr(c[i].id), DictGet(c, c[i].id), e[i])]]

\* the loop of load_index from entry i on; c is self.corpus, e the local list
RECURSIVE LoadEntries(_, _, _, _, _)
LoadEntries(c, old, e, entries, i) ==
    IF i > Len(entries)
    THEN [corpus |-> c, corpus_embeddings |-> e, raised |-> "none", logged |-> FALSE]
    ELSE LET en == entries[i] IN
         IF ~IsIntLiteral(en.id)
         THEN [corpus |-> c, corpus_embeddings |-> old, raised |-> "ValueError",
               logged |-> FALSE]
         ELSE IF "doc" \notin en.fields
         THEN [corpus |-> c, corpus_embeddings |-> old, raised |-> "KeyError",
               logged |-> FALSE]
         ELSE IF "doc_emb" \notin en.fields
         THEN [corpus |-> DictSet(c, StrToInt(en.id), en.doc),
               corpus_embeddings |-> old, raised |-> "KeyError", logged |-> FALSE]
         ELSE LoadEntries(DictSet(c, StrToInt(en.id), en.doc), old,
                          Append(e, en.doc_emb), entries, i + 1)

\* load_index as it would be if it emptied the store before opening the file
LoadIndexStoreClearsFirst(c, e, file) ==
    IF file.kind \in {"missing", "garbage"}
    THEN [corpus |-> <<>>, corpus_embeddings |-> <<>>, raised |-> "none", logged |-> TRUE]
    ELSE LoadEntries(<<>>, <<>>, <<>>, file.entries, 1)

\* load_index: the store after the call, what it raised, whether it logged an error
LoadIndexStore(c, e, file) ==
    IF file.kind \in {"missing", "garbage"}
    THEN [corpus |-> c, corpus_embeddings |-> e, raised |-> "none", logged |-> TRUE]
    ELSE LoadEntries(c, e, <<>>, file.entries, 1)

\* what lies at a path: the file save_index wrote, or a file put there by others
SavedPath == "corpus_emb.json"

Garbage == [kind |-> "garbage", entries |-> <<>>]

ForeignPaths == {"absent.json", "garbage.json", "bad_id.json", "no_doc.json",
                 "no_emb.json", "other.json"}

ForeignFile(path) ==
    CASE path = "absent.json" -> NoFile
      [] path = "garbage.json" -> Garbage
      [] path = "bad_id.json" ->
           [kind |-> "json",
            entries |-> <<JsonEntry(<<"1">>, "b", <<0, 1>>),
                          JsonEntry(<<"x">>, "c", <<3, 4>>)>>]
      [] path = "no_doc.json" ->
           [kind |-> "json",
            entries |-> <<JsonEntry(<<"1">>, "b", <<0, 1>>),
                          [JsonEntry(<<"2">>, "c", <<3, 4>>) EXCEPT !.fields = {"doc_emb"}]>>]
      [] path = "no_emb.json" ->
           [kind |-> "json",
            entries |-> <<[JsonEntry(<<"1">>, "b", <<0, 1>>) EXCEPT !.fields = {"doc"}]>>]
      [] path = "other.json" ->
           [kind |-> "json",
            entries |-> <<JsonEntry(<<"0">>, "c", <<3, 4>>),
                          JsonEntry(<<"1", "0">>, "b", <<0, 1>>)>>]

FileAt(path) == IF path = SavedPath THEN disk ELSE ForeignFile(path)

\* save_index as it would be if it handed the store over to the file
SaveIndexMovesStore ==
    /\ Idle
    /\ disk' = SaveIndexFile(corpus, corpus_embeddings)
    /\ last' = [NoCall EXCEPT !.op = "save_index", !.kind = "path", !.arg = SavedPath]
    /\ corpus' = <<>>
    /\ corpus_embeddings' = <<>>

SaveIndex ==
    /\ Idle
    /\ disk' = SaveIndexFile(corpus, corpus_embeddings)
    /\ last' = [NoCall EXCEPT !.op = "save_index", !.kind = "path", !.arg = SavedPath]
    /\ UNCHANGED <<corpus, corpus_embeddings>>

LoadIndex ==
    /\ Idle
    /\ \E path \in ForeignPaths \cup {SavedPath} :
         LET r == LoadIndexStore(corpus, corpus_embeddings, FileAt(path)) IN
         /\ corpus' = r.corpus
         /\ corpus_embeddings' = r.corpus_embeddings
         /\ last' = [NoCall EXCEPT !.op = "load_index", !.kind = "path", !.arg = path,
                                   !.raised = r.raised, !.result = r.logged]
    /\ UNCHANGED disk

\* a new Similarity object in the same directory: empty store, files kept
NewSimilarity ==
    /\ Idle
    /\ corpus' = <<>>
    /\ corpus_embeddings' = <<>>
    /\ last' = [NoCall EXCEPT !.op = "new"]
    /\ UNCHANGED disk

\* ------------------------------------------------------- score functions
\* A score is the exact rational num / den (den > 0).
Dot(u, v) == u[1] * v[1] + u[2] * v[2]

\* the encoder's vectors have integral norms
Norm(v) == CHOOSE k \in 0..Dot(v, v) : k * k = Dot(v, v)

DotScore(u, v) == [num |-> Dot(u, v), den |-> 1]

CosSim(u, v) ==
    IF Norm(u) = 0 \/ Norm(v) = 0 THEN [num |-> 0, den |-> 1]
    ELSE [num |-> Dot(u, v), den |-> Norm(u) * Norm(v)]

ScoreLess(x, y) == x.num * y.den < y.num * x.den

ScoreEq(x, y) == x.num * y.den = y.num * x.den

\* a registry that knows every name, as a lookup with a default would behave
RegisteredWithDefault == ScoreNames

\* self.score_functions
Registered == {"cos_sim", "dot"}

ApplyScore(fn, u, v) == IF fn = "cos_sim" THEN CosSim(u, v) ELSE DotScore(u, v)

\* --------------------------------------------------------- semantic_search
\* hit x comes before hit y: higher score first, equal scores by ascending corpus id
HitBefore(x, y) ==
    \/ ScoreLess(y.score, x.score)
    \/ ScoreEq(x.score, y.score) /\ x.corpus_id < y.corpus_id

\* sorted is ordered best first; h is put at its place in it
RECURSIVE InsertHit(_, _)
InsertHit(h, sorted) ==
    IF sorted = <<>> THEN <<h>>
    ELSE IF HitBefore(h, Head(sorted)) THEN <<h>> \o sorted
    ELSE <<Head(sorted)>> \o InsertHit(h, Tail(sorted))

\* the hits of one query against rows 1..n of the embedding matrix, best first;
\* corpus_id is the row of the matrix, counted from 0
RECURSIVE RankedHits(_, _, _, _)
RankedHits(qe, ce, fn, n) ==
    IF n = 0 THEN <<>>
    ELSE InsertHit([corpus_id |-> n - 1, score |-> ApplyScore(fn, qe, ce[n])],
                   RankedHits(qe, ce, fn, n - 1))

SemanticSearch(queries_embeddings, ce, top_k, fn) ==
    [i \in DOMAIN queries_embeddings |->
        SubSeq(RankedHits(queries_embeddings[i], ce, fn, Len(ce)), 1, Min(top_k, Len(ce)))]

\* ------------------------------------------------------------ most_similar
\* lines 200-203: every shape of queries becomes an id-keyed mapping
NormalizeQueries(kind, queries) ==
    IF kind = "str" THEN <<[id |-> 0, text |-> queries]>>
    ELSE IF kind = "list"
    THEN [i \in DOMAIN queries |-> [id |-> i - 1, text |-> queries[i]]]
    ELSE [i \in DOMAIN queries |-> [id |-> queries[i].key, text |-> queries[i].val]]

\* queries_ids_map as it would be if positions were counted from the last query
QueriesIdsMapReversed(queries) ==
    [idx \in 0..(Len(queries) - 1) |-> queries[Len(queries) - idx].id]

\* queries_ids_map: position idx (from 0) of a query -> its id
QueriesIdsMap(queries) == [idx \in 0..(Len(queries) - 1) |-> queries[idx + 1].id]

QueriesTexts(queries) == [i \in DOMAIN queries |-> queries[i].text]

\* hits[0:topn]
Slice(hits, topn) == SubSeq(hits, 1, Min(topn, Len(hits)))

\* the result as it would be without line 208: an entry exists only for a query
\* that has a hit
FillResultWithoutInit(queries, all_hits, topn) ==
    LET full == [i \in DOMAIN queries |->
                    [qid |-> queries[i].id, hits |-> Slice(all_hits[i], topn)]]
        HasHits(entry) == entry.hits # <<>>
    IN SelectSeq(full, HasHits)

\* line 208 and the loop of lines 214-216: result[queries_ids_map[idx]] is filled
\* with the hits of all_hits[idx]
FillResult(queries, all_hits, topn) ==
    LET ids_map == QueriesIdsMap(queries)
        HitsUnder(qid) ==
            LET idx == CHOOSE x \in DOMAIN ids_map : ids_map[x] = qid
            IN Slice(all_hits[idx + 1], topn)
    IN [i \in DOMAIN queries |-> [qid |-> queries[i].id, hits |-> HitsUnder(queries[i].id)]]

MostSimilarResult(ce, kind, arg, topn, fn) ==
    LET queries == NormalizeQueries(kind, arg)
        queries_embeddings == GetVector(QueriesTexts(queries))
        all_hits == SemanticSearch(queries_embeddings, ce, topn, fn)
    IN FillResult(queries, all_hits, topn)

QueryInputs ==
    [kind : {"str"}, arg : QueryTexts]
    \cup [kind : {"list"}, arg : Lists(QueryTexts, MaxQueries)]
    \cup [kind : {"dict"}, arg : Mappings(QueryKeys, QueryTexts, MaxQueries)]

MostSimilar ==
    /\ Idle
    /\ \E q \in QueryInputs, topn \in 1..MaxTopN, fn \in ScoreNames :
         LET call == [NoCall EXCEPT !.op = "most_similar", !.kind = q.kind,
                                    !.arg = q.arg, !.topn = topn, !.fn = fn]
         IN IF fn \notin Registered
            THEN last' = [call EXCEPT !.raised = "ValueError"]
            ELSE last' = [call EXCEPT
                            !.result = MostSimilarResult(corpus_embeddings, q.kind,
                                                         q.arg, topn, fn),
                            !.encoded =
                               <<QueriesTexts(NormalizeQueries(q.kind, q.arg))>>]
    /\ UNCHANGED <<corpus, corpus_embeddings, disk>>

\* ------------------------------------------------- similarity / distance
\* a score function takes a single vector (str input) or a batch (list input)
AsBatch(kind, arg) == IF kind = "str" THEN <<arg>> ELSE arg

\* res[i][j] = score of a[i] against b[j]
ScoreMatrix(fn, ea, eb) ==
    [i \in DOMAIN ea |-> [j \in DOMAIN eb |-> ApplyScore(fn, ea[i], eb[j])]]

\* lines 182-185
SimilarityResult(a, b, fn) ==
    ScoreMatrix(fn, GetVector(AsBatch(a.kind, a.arg)), GetVector(AsBatch(b.kind, b.arg)))

\* 1 - matrix, entry by entry
OneMinus(matrix) ==
    [i \in DOMAIN matrix |->
        [j \in DOMAIN matrix[i] |->
            [num |-> matrix[i][j].den - matrix[i][j].num, den |-> matrix[i][j].den]]]

TextInputs ==
    [kind : {"str"}, arg : QueryTexts]
    \cup [kind : {"list"}, arg : Lists(QueryTexts, MaxQueries) \ {<<>>}]

Similarity ==
    /\ Idle
    /\ \E a \in TextInputs, b \in TextInputs, fn \in ScoreNames :
         LET call == [NoCall EXCEPT !.op = "similarity", !.kind = a.kind,
                                    !.arg = <<a.arg, b.arg>>, !.fn = fn]
         IN IF fn \notin Registered
            THEN last' = [call EXCEPT !.raised = "ValueError"]
            ELSE last' = [call EXCEPT !.result = SimilarityResult(a, b, fn),
                                      !.encoded = <<a.arg, b.arg>>]
    /\ UNCHANGED <<corpus, corpus_embeddings, disk>>

\* distance calls similarity with the default score function
Distance ==
    /\ Idle
    /\ \E a \in TextInputs, b \in TextInputs :
         last' = [NoCall EXCEPT !.op = "distance", !.kind = a.kind,
                                !.arg = <<a.arg, b.arg>>, !.fn = "cos_sim",
                                !.result = OneMinus(SimilarityResult(a, b, "cos_sim")),
                                !.encoded = <<a.arg, b.arg>>]
    /\ UNCHANGED <<corpus, corpus_embeddings, disk>>

\* ---------------------------------------------------------- specifications
NextRead ==
    \/ AddCorpusMapping
    \/ Similarity
    \/ Distance
    \/ MostSimilar
    \/ SaveIndex
    \/ Return

SpecRead == Init /\ [][NextRead]_vars

NextFail == AddCorpusList \/ AddCorpusListRaises \/ Return

SpecFail == Init /\ [][NextFail]_vars

NextLoad == AddCorpusList \/ LoadIndex \/ NewSimilarity \/ Return

SpecLoad == Init /\ [][NextLoad]_vars

NextSave == AddCorpusList \/ AddCorpusMapping \/ SaveIndex \/ Return

SpecSave == Init /\ [][NextSave]_vars

NextSearch == AddCorpusList \/ MostSimilar \/ Return

SpecSearch == Init /\ [][NextSearch]_vars

NextList == AddCorpusList \/ Return

SpecList == Init /\ [][NextList]_vars

NextCorpus == AddCorpusList \/ AddCorpusMapping \/ Return

SpecCorpus == Init /\ [][NextCorpus]_vars

\* ------------------------------------------------- claims about add_corpus
NoDupValues(c) == \A i, j \in DOMAIN c : c[i].doc = c[j].doc => i = j

\* the texts of input that are not yet a value of the store c
FreshTexts(c, input) == {input[i] : i \in DOMAIN input} \ DictValues(c)

\* the candidates of input that the store c does not hold, in input order
FreshList(c, input) ==
    LET NotStored(t) == t \notin DictValues(c) IN SelectSeq(input, NotStored)

\* C1: after any sequence of add_corpus calls, len(corpus) = len(corpus_embeddings)
\* and the embedding at position i is the encoder output of the document at
\* position i of the corpus.
C1_Aligned ==
    /\ Len(corpus) = Len(corpus_embeddings)
    /\ \A i \in DOMAIN corpus :
         i \in DOMAIN corpus_embeddings /\ corpus_embeddings[i] = Encode(corpus[i].doc)

\* C2: an id assigned by add_corpus stays in the corpus with the same document
\* text across every later add_corpus call with a list.
C2_IdsStable ==
    [][\A i \in DOMAIN corpus :
          /\ corpus[i].id \in KeySet(corpus')
          /\ DictGet(corpus', corpus[i].id) = corpus[i].doc]_vars

\* C3: a text handed to add_corpus twice (in a later call or later in the same
\* list) grows corpus and corpus_embeddings by one the first time and by nothing
\* the second time, so no two ids map to the same text.
C3_InsertedOnce ==
    [][(last'.op = "add_corpus" /\ last'.kind = "list") =>
          LET fresh == Cardinality(FreshTexts(corpus, last'.arg)) IN
          /\ Len(corpus') = Len(corpus) + fresh
          /\ Len(corpus_embeddings') = Len(corpus_embeddings) + fresh
          /\ NoDupValues(corpus')]_vars

\* C4: add_corpus with a list gives the k-th document it inserts (k = 0, 1, ...)
\* the id current_size + k; a skipped duplicate consumes no id.
C4_ContiguousIds ==
    [][(last'.op = "add_corpus" /\ last'.kind = "list") =>
          LET inserted == FreshList(corpus, last'.arg) IN
          \A k \in DOMAIN inserted :
             /\ Len(corpus) + (k - 1) \in KeySet(corpus')
             /\ DictGet(corpus', Len(corpus) + (k - 1)) = inserted[k]]_vars

\* C5: add_corpus with a mapping stores every entry whose text the store does
\* not hold yet, with the mapping's value as the document text.
C5_MappingValuesStored ==
    [][(last'.op = "add_corpus" /\ last'.kind = "dict") =>
          \A j \in DOMAIN last'.arg :
             last'.arg[j].val \notin DictValues(corpus) =>
                last'.arg[j].val \in DictValues(corpus')]_vars

\* ------------------------------------- claims about load_index / save_index
StoreUnchanged == corpus' = corpus /\ corpus_embeddings' = corpus_embeddings

\* C6: load_index of a path that does not exist leaves corpus and
\* corpus_embeddings as they were and returns without raising.
C6_MissingPathNoChange ==
    [][(last'.op = "load_index" /\ FileAt(last'.arg).kind = "missing") =>
          (StoreUnchanged /\ last'.raised = "none")]_vars

C6_Witness ==
    /\ last.op = "load_index"
    /\ FileAt(last.arg).kind = "missing"
    /\ last.raised = "none"
    /\ Len(corpus) >= 2
    /\ Len(corpus_embeddings) >= 2

BadEntry(en) == ~IsIntLiteral(en.id) \/ en.fields # {"doc", "doc_emb"}

Malformed(file) ==
    \/ file.kind = "garbage"
    \/ file.kind = "json" /\ \E i \in DOMAIN file.entries : BadEntry(file.entries[i])

\* C7: load_index of a malformed file (unparseable, or an entry with a
\* non-integer id or without doc or doc_emb) logs an error, does not raise, and
\* leaves corpus and corpus_embeddings as they were.
C7_MalformedNoChange ==
    [][(last'.op = "load_index" /\ Malformed(FileAt(last'.arg))) =>
          (StoreUnchanged /\ last'.raised = "none" /\ last'.result = TRUE)]_vars

\* C8: after save_index, load_index of the written file into a new, empty store
\* gives the saved id -> document mapping and the saved corpus_embeddings.
C8_RoundTrip ==
    last.op = "save_index" =>
        LET r == LoadIndexStore(<<>>, <<>>, disk) IN
        /\ r.raised = "none"
        /\ r.corpus = corpus
        /\ r.corpus_embeddings = corpus_embeddings

\* --------------------------------------------------- claims about most_similar
Searched == last.op = "most_similar" /\ last.raised = "none"

\* the query texts of the last call, by position
AskedTexts ==
    IF last.kind = "str" THEN <<last.arg>>
    ELSE IF last.kind = "list" THEN last.arg
    ELSE [i \in DOMAIN last.arg |-> last.arg[i].val]

\* the id each query of the last call is to be reported under
AskedIds ==
    IF last.kind = "str" THEN <<0>>
    ELSE IF last.kind = "list" THEN [i \in DOMAIN last.arg |-> i - 1]
    ELSE [i \in DOMAIN last.arg |-> last.arg[i].key]

\* every hit stored in entry is a row of the matrix with the score of text against it
HitsBelongTo(entry, text) ==
    \A h \in DOMAIN entry.hits :
       LET hit == entry.hits[h] IN
       /\ hit.corpus_id + 1 \in DOMAIN corpus_embeddings
       /\ hit.score = ApplyScore(last.fn, Encode(text), corpus_embeddings[hit.corpus_id + 1])

\* C9: the result of most_similar has one entry per query, in order, keyed by the
\* query's own id (mapping keys; 0..m-1 for a list; 0 for a bare string), and the
\* hits under an id are those of that query.
C9_KeyedByQueryIds ==
    Searched =>
        /\ Len(last.result) = Len(AskedTexts)
        /\ \A i \in DOMAIN last.result :
              /\ last.result[i].qid = AskedIds[i]
              /\ Len(last.result[i].hits) = Min(last.topn, Len(corpus_embeddings))
              /\ HitsBelongTo(last.result[i], AskedTexts[i])

C9_Witness ==
    /\ Searched
    /\ last.kind = "dict"
    /\ Len(last.result) = 2
    /\ last.result[1].qid = "q8"
    /\ last.result[1].hits # <<>>
    /\ last.result[1].hits # last.result[2].hits

SortedHits(hits) ==
    \A i, j \in DOMAIN hits :
       i < j =>
          \/ ScoreLess(hits[j].score, hits[i].score)
          \/ ScoreEq(hits[i].score, hits[j].score) /\ hits[i].corpus_id < hits[j].corpus_id

\* C10: with topn >= n, the size of the corpus, most_similar returns for each
\* query exactly n hits, by descending score, equal scores by ascending corpus id.
C10_AllHitsSorted ==
    (Searched /\ last.topn >= Len(corpus)) =>
        \A i \in DOMAIN last.result :
           /\ Len(last.result[i].hits) = Len(corpus)
           /\ SortedHits(last.result[i].hits)

\* ------------------------------------------- claims about the score registry
\* C11: similarity and most_similar called with a score_function other than
\* 'cos_sim' or 'dot' raise ValueError and compute no score; the encoder has not
\* been called, and corpus and corpus_embeddings are as before.
C11_UnregisteredRaises ==
    [][(last'.op \in {"similarity", "most_similar"} /\ last'.fn \notin {"cos_sim", "dot"}) =>
          /\ last'.raised = "ValueError"
          /\ last'.result = <<>>
          /\ last'.encoded = <<>>
          /\ StoreUnchanged]_vars

C11_Witness ==
    /\ last.op = "similarity"
    /\ last.fn = "euclid"
    /\ last.raised = "ValueError"
    /\ Len(corpus) = 2

\* ------------------------------------------------ claims about the encoder
\* the documents handed to the last add_corpus call, in input order
InputDocs(call) ==
    IF call.kind = "list" THEN call.arg
    ELSE [i \in DOMAIN call.arg |-> call.arg[i].val]

\* C12: each add_corpus call makes exactly one encoder call, and its argument is
\* the documents of the input that the store did not hold before the call, in
\* input order.
C12_EncodesNewDocsOnce ==
    [][last'.op = "add_corpus" =>
          last'.encoded = <<FreshList(corpus, InputDocs(last'))>>]_vars

\* ------------------------------------------ more claims about most_similar
\* C13: most_similar against an empty corpus returns, for every query id, an
\* entry with no hits.
C13_EmptyCorpusNoHits ==
    (Searched /\ corpus = <<>>) =>
        /\ Len(last.result) = Len(AskedTexts)
        /\ \A i \in DOMAIN last.result :
              /\ last.result[i].qid = AskedIds[i]
              /\ last.result[i].hits = <<>>

C13_Witness ==
    /\ Searched
    /\ corpus = <<>>
    /\ last.kind = "dict"
    /\ last.topn > 0
    /\ Len(last.result) = 2

\* C14: every corpus id reported as a hit by most_similar is a key of the corpus,
\* and its score is the score of the query against the embedding of the document
\* stored under that id.
C14_HitsAreCorpusIds ==
    Searched =>
        \A i \in DOMAIN last.result :
           \A h \in DOMAIN last.result[i].hits :
              LET hit == last.result[i].hits[h] IN
              /\ hit.corpus_id \in KeySet(corpus)
              /\ hit.score = ApplyScore(last.fn, Encode(AskedTexts[i]),
                                        Encode(DictGet(corpus, hit.corpus_id)))

\* ------------------------------------------- more claims about add_corpus
IsPrefix(p, q) == Len(p) <= Len(q) /\ \A i \in DOMAIN p : q[i] = p[i]

\* C15: for every add_corpus call, corpus_embeddings before the call is a prefix
\* of corpus_embeddings after it.
C15_OnlyAppends ==
    [][last'.op = "add_corpus" => IsPrefix(corpus_embeddings, corpus_embeddings')]_vars

\* an add_corpus call that found embeddings in the store and added one to them
C15_Witness ==
    /\ last.op = "add_corpus"
    /\ last.raised = "none"
    /\ Len(last.encoded[1]) >= 1
    /\ Len(corpus_embeddings) > Len(last.encoded[1]) + 1

\* C16: an add_corpus call in which the encoder raises leaves corpus and
\* corpus_embeddings as they were before the call.
C16_EncoderFailureNoChange ==
    [][(last'.op = "add_corpus" /\ last'.raised = "EncoderError") => StoreUnchanged]_vars

\* --------------------------------------------- more claims about load_index
\* C17: after a load_index that read a snapshot without error into a store that
\* was not empty, len(corpus) = len(corpus_embeddings) and the embedding at
\* position i is the embedding of the document at position i of the corpus.
C17_LoadKeepsAligned ==
    [][(/\ last'.op = "load_index"
        /\ last'.raised = "none"
        /\ FileAt(last'.arg).kind = "json"
        /\ corpus # <<>>) =>
          /\ Len(corpus') = Len(corpus_embeddings')
          /\ \A i \in DOMAIN corpus' :
                corpus_embeddings'[i] = Encode(corpus'[i].doc)]_vars

\* ------------------------------------------- claims about the read operations
\* C18: similarity, distance, most_similar and save_index leave corpus and
\* corpus_embeddings unchanged, and the result of a most_similar call is the
\* result the same call has on the store it leaves behind.
C18_ReadOnly ==
    [][(last'.op \in {"similarity", "distance", "most_similar", "save_index"} =>
           StoreUnchanged)
       /\ ((last'.op = "most_similar" /\ last'.raised = "none") =>
              last'.result = MostSimilarResult(corpus_embeddings', last'.kind,
                                               last'.arg, last'.topn, last'.fn))]_vars

\* a search with hits on a store that has been saved
C18_Witness ==
    /\ Searched
    /\ disk = SaveIndexFile(corpus, corpus_embeddings)
    /\ Len(last.result) = 2
    /\ last.result[1].hits # <<>>

\* -------------------------------------------------- add_corpus, repeated
\* C19: add_corpus(X) called again right after add_corpus(X) changes neither
\* corpus nor corpus_embeddings, for every list X; add_corpus([]) changes neither.
C19_Idempotent ==
    [][(last'.op = "add_corpus" /\ last'.kind = "list") =>
          /\ AddCorpusStore(corpus', corpus_embeddings',
                            NewCorpusList(corpus', last'.arg))
                = [corpus |-> corpus', corpus_embeddings |-> corpus_embeddings']
          /\ (last'.arg = <<>> => StoreUnchanged)]_vars

====
